---- MODULE Spec2Model ----
(***************************************************************************)
(* Review-analysis pipeline of Generalize-AI.                              *)
(*                                                                         *)
(*   Spec          process_excel_file (analyzer.py) driving                *)
(*                 analyze_review_batch (llm_engine.py), one step per      *)
(*                 loop phase                                              *)
(*   SpecCompare   compare_and_merge_runs (app.py) on two drawn runs       *)
(*   SpecWeb       two /analyze request threads and the download routes    *)
(*                 sharing the fixed-path files (app.py)                   *)
(*   SpecValidate  run_gold_standard_validation (validator.py)             *)
(*   SpecColumns   the text column detection of process_excel_file         *)
(*   SpecTags      detect_complexity_tags (validator.py) on drawn texts    *)
(*   SpecRequest   the LLM batch calls of one /analyze or /validate        *)
(*                 request in time, issue and return being separate steps  *)
(*                                                                         *)
(* Texts are sequences of one-character strings so that len() and lower()  *)
(* are computed, not assumed.  Row ids are the 0-based RangeIndex labels   *)
(* pandas gives a freshly read sheet.                                      *)
(***************************************************************************)
EXTENDS Integers, Sequences, FiniteSets, TLC

VARIABLES
    \* ---- process_excel_file ----
    df,             \* the text column of the sheet: a sequence of cells
    batch_size,     \* the batch_size argument
    i,              \* loop variable of `for i in range(0, total_rows, batch_size)`
    pc,             \* position in process_excel_file
    batch_input,    \* list of {"id","text"} of the current chunk
    batch_results,  \* what analyze_review_batch returned for the current chunk
    analyzed_data,  \* the rows appended so far
    origin,         \* history: origin[k] is the row id analyzed_data[k] was emitted for
    calls,          \* history: one record per analyze_review_batch call
    \* ---- compare_and_merge_runs ----
    run1,           \* df1: the rows of pass 1
    run2,           \* df2: the rows of pass 2
    cmp_pc,         \* "idle", "start" or "done"
    merged,         \* the returned df1: run1 with its verification_status column
    score,          \* the returned score, an exact fraction [num, den]
    \* ---- the web application: request threads and the files they share ----
    w_pc,           \* per request thread: position in analyze()
    dual,           \* per request thread: request.form dual_mode == 'on'
    upload_file,    \* data/uploaded_reviews.xlsx: whose upload it holds
    run_src,        \* per thread: whose upload pass 1 and pass 2 read
    excel_file,     \* data/latest_results.xlsx: what it holds
    summary_file,   \* data/latest_summary.html: what it holds
    word_file,      \* data/marketing_report.docx: what it holds
    dl_pc,          \* per user: position in download_report()
    got_data,       \* per user: what /download_data answered
    got_report,     \* per user: what /download_report answered
    \* ---- run_gold_standard_validation ----
    gold_ok,        \* whether the gold file opens and parses as JSON
    gold,           \* gold_data
    v_dual,         \* the dual_mode argument
    v_pc,           \* position in run_gold_standard_validation
    v_i,            \* loop variable of _get_predictions
    v_last,         \* batch_results of the last call in _get_predictions
    pred1,          \* predictions_pass_1
    pred2,          \* predictions_pass_2
    v_result,       \* what the function returned
    \* ---- text column detection (process_excel_file, lines 12-34) ----
    columns,        \* the sheet as read: a sequence of named columns
    col_pc,         \* position in the detection
    text_col,       \* text_col: None, a column, or the label idxmax answered
    \* ---- detect_complexity_tags ----
    tag_text,       \* the text argument
    tag_pc,         \* "idle", "start" or "done"
    tags,           \* the returned list
    \* ---- the LLM batch calls of one /analyze or /validate request, in time ----
    q_kind,         \* "analyze" or "validate"
    q_dual,         \* dual_mode
    q_rows,         \* per row (or gold sample): whether the row filter lets it through
    q_pass,         \* the pass running: 1 or 2
    q_i,            \* loop variable i of the pass running
    q_pc,           \* position of the request thread
    q_log           \* history: the calls issued and returned, in time order

pipeVars == <<df, batch_size, i, pc, batch_input, batch_results, analyzed_data,
              origin, calls>>

cmpVars == <<run1, run2, cmp_pc, merged, score>>

webVars == <<w_pc, dual, upload_file, run_src, excel_file, summary_file, word_file,
             dl_pc, got_data, got_report>>

valVars == <<gold_ok, gold, v_dual, v_pc, v_i, v_last, pred1, pred2, v_result>>

colVars == <<columns, col_pc, text_col>>

tagVars == <<tag_text, tag_pc, tags>>

reqVars == <<q_kind, q_dual, q_rows, q_pass, q_i, q_pc, q_log>>

fnVars == <<colVars, tagVars, reqVars>>

vars == <<pipeVars, cmpVars, webVars, valVars, fnVars>>

(***************************************************************************)
(* Bounds                                                                  *)
(***************************************************************************)
MaxRows == 3        \* longest sheet drawn
MaxResp == 2        \* longest reviews list a parsed LLM answer carries
MaxRun == 5         \* longest run handed to compare_and_merge_runs
MaxGold == 2        \* largest gold set drawn

(***************************************************************************)
(* Program constants                                                       *)
(***************************************************************************)
BATCH_SIZE == 4
MinTextLen == 5

(***************************************************************************)
(* Cells and their coercion to text: str(row[text_col])                    *)
(***************************************************************************)
NaNCell   == [kind |-> "float", chars |-> <<>>]        \* an empty cell reads as float NaN
StrCell(s) == [kind |-> "str", chars |-> s]

Cells ==
    { NaNCell,
      StrCell(<<"N", "a", "N">>),
      StrCell(<<"g", "o", "o", "d">>),
      StrCell(<<"G", "r", "e", "a", "t">>) }

\* str(): a float NaN prints as "nan"; a string prints its characters
Str(cell) ==
    IF cell.kind = "float" THEN <<"n", "a", "n">> ELSE cell.chars

LowerChar(c) ==
    CASE c = "N" -> "n"
      [] c = "A" -> "a"
      [] c = "G" -> "g"
      [] c = "B" -> "b"
      [] c = "D" -> "d"
      [] c = "F" -> "f"
      [] c = "H" -> "h"
      [] c = "I" -> "i"
      [] c = "O" -> "o"
      [] c = "R" -> "r"
      [] c = "T" -> "t"
      [] OTHER   -> c

\* str.lower()
Lower(s) == [k \in 1..Len(s) |-> LowerChar(s[k])]

\* the filter with its length test off by one
Filtered_OffByOne(text) ==
    Len(text) < MinTextLen - 1 \/ Lower(text) = <<"n", "a", "n">>

\* analyzer.py line 55: the rows the loop skips
Filtered(text) ==
    Len(text) < MinTextLen \/ Lower(text) = <<"n", "a", "n">>

SeqsUpTo(S, n) == UNION { [1..k -> S] : k \in 0..n }

(***************************************************************************)
(* Insights (models.py) and what the LLM may answer                        *)
(***************************************************************************)
InsightA == [aspect |-> "service", sentiment |-> "negative",
             evidence |-> "quote", rationale |-> "llm"]
InsightB == [aspect |-> "other", sentiment |-> "neutral",
             evidence |-> "", rationale |-> "llm"]

InsightLists == { <<>>, <<InsightA>>, <<InsightA, InsightB>> }

Outcomes == {"parsed", "refusal", "unparsed", "error"}

\* The ReviewResult lists a parsed answer to a request for `ids` may carry: any
\* order, ids left out, ids repeated, and the id `foreign` that was not asked for.
Responses(ids, foreign) ==
    SeqsUpTo([id : ids \cup {foreign}, insights : InsightLists], MaxResp)

\* What a call hands its caller: a value, or the exception it let through.
Returned(value) == [raised |-> FALSE, value |-> value]
Raised == [raised |-> TRUE, value |-> <<>>]

\* the call without its `except Exception`
analyze_review_batch_NoCatch(outcome, reviews) ==
    CASE outcome = "error"   -> Raised
      [] outcome = "refusal" -> Returned(<<>>)
      [] outcome = "parsed"  -> Returned(reviews)
      [] OTHER               -> Returned(<<>>)

\* llm_engine.py lines 34-71.  "error": the API call or the parsing raised, caught
\* by `except Exception` (line 69); "refusal": message.refusal is set (line 57);
\* "unparsed": neither a refusal nor a parsed body (line 67); "parsed": line 64.
analyze_review_batch(outcome, reviews) ==
    CASE outcome = "error"   -> Returned(<<>>)
      [] outcome = "refusal" -> Returned(<<>>)
      [] outcome = "parsed"  -> Returned(reviews)
      [] OTHER               -> Returned(<<>>)

(***************************************************************************)
(* process_excel_file                                                      *)
(***************************************************************************)
total_rows == Len(df)

\* the chunk end without its clamp at i + batch_size
Min_SecondOnly(a, b) == b

Min(a, b) == IF a < b THEN a ELSE b

\* the chunk with its items inserted at the front instead of appended
RECURSIVE ChunkInput_Rev(_, _, _)
ChunkInput_Rev(sheet, lo, hi) ==
    IF lo >= hi THEN <<>>
    ELSE LET text == Str(sheet[lo + 1])
         IN  IF Filtered(text)
             THEN ChunkInput_Rev(sheet, lo + 1, hi)
             ELSE ChunkInput_Rev(sheet, lo + 1, hi) \o <<[id |-> lo, text |-> text]>>

\* lines 49-60: the items of rows lo..hi-1 (0-based) that pass the filter, in row order
RECURSIVE ChunkInput(_, _, _)
ChunkInput(sheet, lo, hi) ==
    IF lo >= hi THEN <<>>
    ELSE LET text == Str(sheet[lo + 1])
         IN  IF Filtered(text)
             THEN ChunkInput(sheet, lo + 1, hi)
             ELSE <<[id |-> lo, text |-> text]>> \o ChunkInput(sheet, lo + 1, hi)

\* the lookup table keeping the first entry of an id instead of the last
RECURSIVE ResultsMap_FirstWins(_)
ResultsMap_FirstWins(results) ==
    IF results = <<>> THEN <<>>
    ELSE (Head(results).id :> Head(results).insights) @@ ResultsMap_FirstWins(Tail(results))

\* line 72: {res.id: res.insights for res in batch_results}; a later entry replaces
\* an earlier one of the same id
RECURSIVE ResultsMap(_)
ResultsMap(results) ==
    IF results = <<>> THEN <<>>
    ELSE LET last == results[Len(results)]
         IN  (last.id :> last.insights) @@ ResultsMap(SubSeq(results, 1, Len(results) - 1))

\* line 79: results_map.get(original_id, [])
MapGet(map, id) == IF id \in DOMAIN map THEN map[id] ELSE <<>>

Placeholder(text) ==
    [original_text |-> text, aspect |-> "other", sentiment |-> "neutral",
     evidence |-> "", rationale |-> "No insight detected (or skipped by LLM)"]

InsightRow(text, insight) ==
    [original_text |-> text, aspect |-> insight.aspect, sentiment |-> insight.sentiment,
     evidence |-> insight.evidence, rationale |-> insight.rationale]

\* the reconciliation without its placeholder branch
ItemRows_NoPlaceholder(item, map) ==
    LET insights == IF item.id \in DOMAIN map THEN map[item.id] ELSE <<>>
    IN  [k \in 1..Len(insights) |-> InsightRow(item.text, insights[k])]

\* lines 79-96 for one item
ItemRows(item, map) ==
    LET insights == MapGet(map, item.id)
    IN  IF insights = <<>>
        THEN <<Placeholder(item.text)>>
        ELSE [k \in 1..Len(insights) |-> InsightRow(item.text, insights[k])]

\* lines 75-96 for the whole batch: the rows appended, each with the id of the
\* item it was appended for
RECURSIVE BatchEmit(_, _)
BatchEmit(items, map) ==
    IF items = <<>> THEN <<>>
    ELSE LET rows == ItemRows(Head(items), map)
         IN  [k \in 1..Len(rows) |-> [id |-> Head(items).id, row |-> rows[k]]]
             \o BatchEmit(Tail(items), map)

BatchSizes == {1, 2, BATCH_SIZE}

PipeInit ==
    /\ df \in SeqsUpTo(Cells, MaxRows)
    /\ batch_size \in BatchSizes
    /\ i = 0
    /\ pc = "loop"
    /\ batch_input = <<>>
    /\ batch_results = <<>>
    /\ analyzed_data = <<>>
    /\ origin = <<>>
    /\ calls = <<>>

\* process_excel_file not running
PipeIdle ==
    /\ df = <<>>
    /\ batch_size = BATCH_SIZE
    /\ i = 0
    /\ pc = "idle"
    /\ batch_input = <<>>
    /\ batch_results = <<>>
    /\ analyzed_data = <<>>
    /\ origin = <<>>
    /\ calls = <<>>

\* compare_and_merge_runs not running
CmpIdle ==
    /\ run1 = <<>>
    /\ run2 = <<>>
    /\ cmp_pc = "idle"
    /\ merged = <<>>
    /\ score = [num |-> 0, den |-> 1]

\* two browser users, each sending one /analyze request on a thread of its own
\* (app.run(threaded=True), app.py line 144)
Threads == {1, 2}

\* a file that does not exist, and an answer not asked for yet
NoFile == [req |-> 0, src |-> 0]
NoAnswer == [status |-> "none", body |-> NoFile]

\* no request in flight
WebIdle ==
    /\ w_pc = [t \in Threads |-> "idle"]
    /\ dual = [t \in Threads |-> FALSE]
    /\ upload_file = 0
    /\ run_src = [t \in Threads |-> <<0, 0>>]
    /\ excel_file = NoFile
    /\ summary_file = NoFile
    /\ word_file = NoFile
    /\ dl_pc = [t \in Threads |-> "idle"]
    /\ got_data = [t \in Threads |-> NoAnswer]
    /\ got_report = [t \in Threads |-> NoAnswer]

\* the value a function that has not returned has returned
NoResult == [pending |-> TRUE]

\* run_gold_standard_validation not running
ValIdle ==
    /\ gold_ok = TRUE
    /\ gold = <<>>
    /\ v_dual = FALSE
    /\ v_pc = "idle"
    /\ v_i = 0
    /\ v_last = <<>>
    /\ pred1 = <<>>
    /\ pred2 = <<>>
    /\ v_result = NoResult

\* None: no column chosen yet
NoCol == [kind |-> "none", col |-> 0]

\* column detection not running
ColIdle ==
    /\ columns = <<>>
    /\ col_pc = "idle"
    /\ text_col = NoCol

\* detect_complexity_tags not running
TagIdle ==
    /\ tag_text = <<>>
    /\ tag_pc = "idle"
    /\ tags = <<>>

\* no request under observation
ReqIdle ==
    /\ q_kind = "none"
    /\ q_dual = FALSE
    /\ q_rows = <<>>
    /\ q_pass = 1
    /\ q_i = 0
    /\ q_pc = "idle"
    /\ q_log = <<>>

FnIdle == ColIdle /\ TagIdle /\ ReqIdle

Init == PipeInit /\ CmpIdle /\ WebIdle /\ ValIdle /\ FnIdle

\* lines 44-63: next chunk; a chunk with nothing to send is skipped
PrepareChunk ==
    /\ pc = "loop"
    /\ i < total_rows
    /\ LET end_idx == Min(i + batch_size, total_rows)
           items   == ChunkInput(df, i, end_idx)
       IN  /\ batch_input' = items
           /\ IF items = <<>>
              THEN /\ i' = i + batch_size
                   /\ pc' = "loop"
              ELSE /\ i' = i
                   /\ pc' = "call"
    \* the previous chunk's batch_results is dead here: line 68 reassigns it
    \* before anything reads it
    /\ batch_results' = <<>>
    /\ UNCHANGED <<df, batch_size, analyzed_data, origin, calls>>
    /\ UNCHANGED <<cmpVars, webVars, valVars, fnVars>>

\* line 68: one call of analyze_review_batch, whatever the LLM does.  An exception
\* leaving the call would leave process_excel_file too: nothing there catches it.
CallLLM ==
    /\ pc = "call"
    /\ \E outcome \in Outcomes :
         \E reviews \in Responses({batch_input[k].id : k \in 1..Len(batch_input)},
                                  total_rows) :
            /\ outcome # "parsed" => reviews = <<>>
            /\ calls' = Append(calls, [start |-> i, items |-> batch_input,
                                       outcome |-> outcome])
            /\ LET r == analyze_review_batch(outcome, reviews)
               IN  IF r.raised
                   THEN /\ pc' = "raised"
                        /\ batch_results' = batch_results
                   ELSE /\ pc' = "map"
                        /\ batch_results' = r.value
    /\ UNCHANGED <<df, batch_size, i, batch_input, analyzed_data, origin>>
    /\ UNCHANGED <<cmpVars, webVars, valVars, fnVars>>

\* lines 72-96: reconcile what came back with what was sent
MapResults ==
    /\ pc = "map"
    /\ LET emitted == BatchEmit(batch_input, ResultsMap(batch_results))
       IN  /\ analyzed_data' = analyzed_data \o [k \in 1..Len(emitted) |-> emitted[k].row]
           /\ origin' = origin \o [k \in 1..Len(emitted) |-> emitted[k].id]
    /\ i' = i + batch_size
    /\ pc' = "loop"
    /\ UNCHANGED <<df, batch_size, batch_input, batch_results, calls>>
    /\ UNCHANGED <<cmpVars, webVars, valVars, fnVars>>

\* line 101
Return ==
    /\ pc = "loop"
    /\ i >= total_rows
    /\ pc' = "done"
    /\ UNCHANGED <<df, batch_size, i, batch_input, batch_results, analyzed_data,
                   origin, calls>>
    /\ UNCHANGED <<cmpVars, webVars, valVars, fnVars>>

Next == PrepareChunk \/ CallLLM \/ MapResults \/ Return

Spec == Init /\ [][Next]_vars

(***************************************************************************)
(* Properties of process_excel_file                                        *)
(***************************************************************************)
RowIds == 0..(Len(df) - 1)
RowText(r) == Str(df[r + 1])
NaNText == <<"n", "a", "n">>

\* the rows of analyzed_data emitted for row r, in table order
RECURSIVE RowsFrom(_, _)
RowsFrom(r, k) ==
    IF k > Len(analyzed_data) THEN <<>>
    ELSE IF origin[k] = r
         THEN <<analyzed_data[k]>> \o RowsFrom(r, k + 1)
         ELSE RowsFrom(r, k + 1)
RowsOf(r) == RowsFrom(r, 1)

ItemIds(items) == {items[k].id : k \in 1..Len(items)}

\* the current chunk has been reconciled and nothing has replaced it yet
JustMapped == pc \in {"loop", "done"} /\ batch_input # <<>>

\* C1: once process_excel_file has returned, every row whose text has length >= 5
\* has at least one AnalyzedRow carrying its text, whatever the client returned.
C1_EveryLongRowEmitted ==
    pc = "done" =>
        \A r \in RowIds :
            Len(RowText(r)) >= 5 =>
                \E k \in 1..Len(analyzed_data) :
                    origin[k] = r /\ analyzed_data[k].original_text = RowText(r)

\* a finished run in which one sent row got nothing back and another got insights
C1_Witness ==
    /\ pc = "done"
    /\ \E r1, r2 \in RowIds :
          /\ Len(RowText(r1)) >= 5 /\ Len(RowText(r2)) >= 5
          /\ RowsOf(r1) = <<Placeholder(RowText(r1))>>
          /\ Len(RowsOf(r2)) = 2
    /\ \E c \in 1..Len(calls) : calls[c].outcome = "parsed"

\* the entries of the current answer that carry id
EntriesOf(id) == {k \in 1..Len(batch_results) : batch_results[k].id = id}
LastEntryOf(id) == CHOOSE k \in EntriesOf(id) : \A l \in EntriesOf(id) : l <= k

RECURSIVE AllInsightsOf(_, _)
AllInsightsOf(id, k) ==
    IF k > Len(batch_results) THEN <<>>
    ELSE IF batch_results[k].id = id
         THEN batch_results[k].insights \o AllInsightsOf(id, k + 1)
         ELSE AllInsightsOf(id, k + 1)

RowsFor(text, insights) ==
    [k \in 1..Len(insights) |->
        [original_text |-> text, aspect |-> insights[k].aspect,
         sentiment |-> insights[k].sentiment, evidence |-> insights[k].evidence,
         rationale |-> insights[k].rationale]]

NoInsightRow(text) ==
    [original_text |-> text, aspect |-> "other", sentiment |-> "neutral",
     evidence |-> "", rationale |-> "No insight detected (or skipped by LLM)"]

\* C2 as stated: for every id sent, one placeholder when the answer has no entry
\* for the id or an entry with an empty insight list; otherwise one row per
\* returned insight of the id, in the order received.
C2_AsStated ==
    JustMapped =>
        \A n \in 1..Len(batch_input) :
            LET id   == batch_input[n].id
                text == batch_input[n].text
            IN  IF \/ EntriesOf(id) = {}
                   \/ \E k \in EntriesOf(id) : batch_results[k].insights = <<>>
                THEN RowsOf(id) = <<NoInsightRow(text)>>
                ELSE RowsOf(id) = RowsFor(text, AllInsightsOf(id, 1))

\* C2 (amended): for every id sent, one placeholder when the answer has no entry
\* for the id or its last entry for the id has an empty insight list; otherwise one
\* row per insight of that last entry, in order, and no placeholder.
C2_LastEntryDecides ==
    JustMapped =>
        \A n \in 1..Len(batch_input) :
            LET id   == batch_input[n].id
                text == batch_input[n].text
            IN  IF \/ EntriesOf(id) = {}
                   \/ batch_results[LastEntryOf(id)].insights = <<>>
                THEN RowsOf(id) = <<NoInsightRow(text)>>
                ELSE /\ RowsOf(id) = RowsFor(text, batch_results[LastEntryOf(id)].insights)
                     /\ \A k \in 1..Len(RowsOf(id)) : RowsOf(id)[k] # NoInsightRow(text)

\* a reconciled chunk whose answer names one id twice, leaves another id out and
\* gives insights to a third
C2_Witness ==
    /\ JustMapped
    /\ \E id \in ItemIds(batch_input) : Cardinality(EntriesOf(id)) = 2
    /\ \E id \in ItemIds(batch_input) : EntriesOf(id) = {}
    /\ \E id \in ItemIds(batch_input) : Len(RowsOf(id)) = 2

\* C3: a row whose text is shorter than 5 or reads "nan" in any letter case is in
\* no batch handed to analyze_review_batch and has no row in the output.
C3_FilteredRowsAbsent ==
    \A r \in RowIds :
        (Len(RowText(r)) < 5 \/ Lower(RowText(r)) = NaNText) =>
            /\ r \notin ItemIds(batch_input)
            /\ \A c \in 1..Len(calls) : r \notin ItemIds(calls[c].items)
            /\ \A k \in 1..Len(origin) : origin[k] # r

\* a finished run whose one chunk held a short row, a "NaN" row and a sent row
C3_Witness ==
    /\ pc = "done"
    /\ Len(calls) = 1
    /\ \E r1, r2, r3 \in RowIds :
          /\ Len(RowText(r1)) < 5 /\ Lower(RowText(r1)) # NaNText
          /\ RowText(r2) # NaNText /\ Lower(RowText(r2)) = NaNText
          /\ r3 \in ItemIds(calls[1].items)
    /\ Len(analyzed_data) >= 1

Failed(outcome) == outcome \in {"refusal", "error"}

\* the call c's chunk has been reconciled
Reconciled(c) == c < Len(calls) \/ pc \in {"loop", "done"}

\* C4: a refused or failing LLM call returns the empty sequence and raises
\* nothing; its chunk is called once only; every id sent in it gets exactly one
\* placeholder row; and the run still calls every later chunk and ends.
C4_FailedChunk ==
    /\ pc # "raised"
    /\ (pc = "map" /\ Failed(calls[Len(calls)].outcome)) => batch_results = <<>>
    /\ \A c, d \in 1..Len(calls) : c # d => calls[c].start # calls[d].start
    /\ \A c \in 1..Len(calls) :
          (Failed(calls[c].outcome) /\ Reconciled(c)) =>
              \A n \in 1..Len(calls[c].items) :
                  RowsOf(calls[c].items[n].id) = <<NoInsightRow(calls[c].items[n].text)>>
    /\ pc = "done" =>
          \A r \in RowIds :
              Len(RowText(r)) >= 5 =>
                  /\ Cardinality({c \in 1..Len(calls) : r \in ItemIds(calls[c].items)}) = 1
                  /\ RowsOf(r) # <<>>

\* a finished run whose first call raised, whose second was refused and whose
\* third was answered with insights
C4_Witness ==
    /\ pc = "done"
    /\ Len(calls) = 3
    /\ calls[1].outcome = "error"
    /\ calls[2].outcome = "refusal"
    /\ calls[3].outcome = "parsed"
    /\ Len(RowsOf(calls[3].items[1].id)) = 2

\* consecutive repeats removed
RECURSIVE Collapse(_)
Collapse(s) ==
    IF Len(s) <= 1 THEN s
    ELSE IF s[1] = s[2] THEN Collapse(Tail(s))
         ELSE <<s[1]>> \o Collapse(Tail(s))

\* the ids of the rows the filter lets through, in sheet order
RECURSIVE KeptFrom(_)
KeptFrom(r) ==
    IF r >= Len(df) THEN <<>>
    ELSE IF Len(RowText(r)) < 5 \/ Lower(RowText(r)) = NaNText
         THEN KeptFrom(r + 1)
         ELSE <<r>> \o KeptFrom(r + 1)

\* C5: for every batch size, the finished table lists the unfiltered rows in sheet
\* order, the rows of one sheet row contiguous and carrying its text, whatever the
\* LLM returned; so the row order is the same for batch size 1 and batch size N.
C5_RowOrderPreserved ==
    pc = "done" =>
        /\ Collapse(origin) = KeptFrom(0)
        /\ \A k \in 1..Len(analyzed_data) :
              analyzed_data[k].original_text = RowText(origin[k])

\* a finished run in chunks of two over three sent rows, one of them with two
\* insight rows and one with a placeholder
C5_Witness ==
    /\ pc = "done"
    /\ batch_size = 2
    /\ Len(KeptFrom(0)) = 3
    /\ Len(calls) = 2
    /\ \E k \in 1..(Len(origin) - 1) : origin[k] = origin[k + 1]
    /\ \E r \in RowIds : RowsOf(r) = <<NoInsightRow(RowText(r))>>

(***************************************************************************)
(* compare_and_merge_runs (app.py lines 126-141)                           *)
(***************************************************************************)
\* The rows of a run as the comparison reads them: the aspect and sentiment
\* columns.  The other columns are carried along unread.
RowK0 == [aspect |-> "other", sentiment |-> "neutral"]
RowK1 == [aspect |-> "service", sentiment |-> "neutral"]
RowK2 == [aspect |-> "other", sentiment |-> "negative"]

Run1Rows == {RowK0, RowK1}
Run2Rows == {RowK0, RowK1, RowK2}

RECURSIVE GCD(_, _)
GCD(a, b) == IF b = 0 THEN a ELSE GCD(b, a % b)

\* a / b as a fraction in lowest terms, b > 0
Frac(a, b) == LET g == GCD(a, b) IN IF a = 0 THEN [num |-> 0, den |-> 1]
                                   ELSE [num |-> a \div g, den |-> b \div g]

\* line 135 with the sentiment test left out
RowsAgree_AspectOnly(r1, r2) == r1.aspect = r2.aspect

\* line 135
RowsAgree(r1, r2) == r1.aspect = r2.aspect /\ r1.sentiment = r2.sentiment

\* lines 137 and 139
StatusOf(r1, r2) ==
    IF RowsAgree(r1, r2)
    THEN [status |-> "Verified", run2 |-> <<>>]
    ELSE [status |-> "Mismatch", run2 |-> <<r2.aspect, r2.sentiment>>]

Pending == [status |-> "Pending", run2 |-> <<>>]

\* lines 132-139: the loop from index k (0-based) on, given the count so far;
\* it stops at the end of df1 or at the first index df2 does not have
RECURSIVE CompareLoop(_, _, _, _, _)
CompareLoop(df1, df2, k, consistent, status) ==
    IF k >= Len(df1) \/ k >= Len(df2)
    THEN [consistent |-> consistent, status |-> status]
    ELSE CompareLoop(df1, df2, k + 1,
                     IF RowsAgree(df1[k + 1], df2[k + 1]) THEN consistent + 1 ELSE consistent,
                     [status EXCEPT ![k + 1] = StatusOf(df1[k + 1], df2[k + 1])])

\* lines 126-141
compare_and_merge_runs(df1, df2) ==
    LET total == Len(df1)
        loop  == CompareLoop(df1, df2, 0, 0, [k \in 1..Len(df1) |-> Pending])
    IN  [df1   |-> [k \in 1..Len(df1) |->
                       [aspect |-> df1[k].aspect, sentiment |-> df1[k].sentiment,
                        verification_status |-> loop.status[k]]],
         score |-> IF total > 0 THEN Frac(loop.consistent * 100, total)
                   ELSE [num |-> 0, den |-> 1]]

CmpInit ==
    /\ run1 \in SeqsUpTo(Run1Rows, MaxRun)
    /\ run2 \in SeqsUpTo(Run2Rows, MaxRun)
    /\ cmp_pc = "start"
    /\ merged = <<>>
    /\ score = [num |-> 0, den |-> 1]

\* app.py line 56
Compare ==
    /\ cmp_pc = "start"
    /\ LET r == compare_and_merge_runs(run1, run2)
       IN  /\ merged' = r.df1
           /\ score' = r.score
    /\ cmp_pc' = "done"
    /\ UNCHANGED <<run1, run2, pipeVars, fnVars, webVars, valVars>>

InitCompare == PipeIdle /\ CmpInit /\ WebIdle /\ ValIdle /\ FnIdle

NextCompare == Compare

SpecCompare == InitCompare /\ [][NextCompare]_vars

(***************************************************************************)
(* Properties of compare_and_merge_runs                                    *)
(***************************************************************************)
Shorter == IF Len(run1) < Len(run2) THEN Len(run1) ELSE Len(run2)

Matching(k) == run1[k].aspect = run2[k].aspect /\ run1[k].sentiment = run2[k].sentiment

Matches == Cardinality({k \in 1..Shorter : Matching(k)})

Percent(n) == [num |-> n, den |-> 1]

\* C6 as stated: the score is the number of matching index-aligned pairs over
\* min(len(run1), len(run2)), times 100, and 0 when nothing is compared.
C6_ScoreOverShorterRun ==
    cmp_pc = "done" =>
        score = IF Shorter = 0 THEN Percent(0) ELSE Frac(Matches * 100, Shorter)

Identical ==
    /\ Len(run1) = Len(run2)
    /\ \A k \in 1..Len(run1) : Matching(k)

AllDiffer == \A k \in 1..Shorter : ~Matching(k)

\* two runs of five rows that differ in the aspect of exactly one row and in
\* nothing else
OneAspectOfFiveDiffers ==
    /\ Len(run1) = 5 /\ Len(run2) = 5
    /\ \E k \in 1..5 :
          /\ run1[k].aspect # run2[k].aspect
          /\ run1[k].sentiment = run2[k].sentiment
          /\ \A l \in (1..5) \ {k} : Matching(l)

\* C7 as stated: 100 for element-wise identical runs, 0 when every aligned pair
\* differs, 80 for two runs of five that differ in one row's aspect only.
C7_AsStated ==
    cmp_pc = "done" =>
        /\ Identical => score = Percent(100)
        /\ AllDiffer => score = Percent(0)
        /\ OneAspectOfFiveDiffers => score = Percent(80)

\* C7 (amended): 100 for non-empty element-wise identical runs, 0 when every
\* aligned pair differs, 80 for two runs of five that differ in one row's aspect
\* only.
C7_IdenticalNonEmpty ==
    cmp_pc = "done" =>
        /\ (Identical /\ Len(run1) > 0) => score = Percent(100)
        /\ AllDiffer => score = Percent(0)
        /\ OneAspectOfFiveDiffers => score = Percent(80)

\* five rows against five, the third differing in aspect only, scored 80 and
\* marked as a mismatch
C7_Witness ==
    /\ cmp_pc = "done"
    /\ OneAspectOfFiveDiffers
    /\ ~Matching(3)
    /\ score = Percent(80)
    /\ merged[3].verification_status.status = "Mismatch"

(***************************************************************************)
(* The web application (app.py): /analyze, /download_data, /download_report*)
(* Each file operation is one step; the analysis passes are reduced to     *)
(* which upload they read.                                                 *)
(***************************************************************************)
WebInit ==
    /\ w_pc = [t \in Threads |-> "idle"]
    /\ dual \in [Threads -> BOOLEAN]
    /\ upload_file = 0
    /\ run_src = [t \in Threads |-> <<0, 0>>]
    /\ excel_file = NoFile
    /\ summary_file = NoFile
    /\ word_file = NoFile
    /\ dl_pc = [t \in Threads |-> "idle"]
    /\ got_data = [t \in Threads |-> NoAnswer]
    /\ got_report = [t \in Threads |-> NoAnswer]

\* what request t saves: its results, computed from the upload pass 1 read
Artifact(t) == [req |-> t, src |-> run_src[t][1]]

\* lines 31-33: no file part, or an empty file name
Reject(t) ==
    /\ w_pc[t] = "idle"
    /\ w_pc' = [w_pc EXCEPT ![t] = "rejected"]
    /\ UNCHANGED <<dual, upload_file, run_src, excel_file, summary_file, word_file,
                   dl_pc, got_data, got_report, pipeVars, fnVars, cmpVars, valVars>>

\* lines 36-37: the upload is saved under the one fixed name
Upload(t) ==
    /\ w_pc[t] = "idle"
    /\ upload_file' = t
    /\ w_pc' = [w_pc EXCEPT ![t] = "pass1"]
    /\ UNCHANGED <<dual, run_src, excel_file, summary_file, word_file,
                   dl_pc, got_data, got_report, pipeVars, fnVars, cmpVars, valVars>>

\* line 51 or line 60: process_excel_file reads the file that is there now
Pass1(t) ==
    /\ w_pc[t] = "pass1"
    /\ run_src' = [run_src EXCEPT ![t] = <<upload_file, IF dual[t] THEN 0 ELSE upload_file>>]
    /\ w_pc' = [w_pc EXCEPT ![t] = IF dual[t] THEN "pass2" ELSE "summary"]
    /\ UNCHANGED <<dual, upload_file, excel_file, summary_file, word_file,
                   dl_pc, got_data, got_report, pipeVars, fnVars, cmpVars, valVars>>

\* lines 54-57: the second pass reads the file again; the two runs are compared
Pass2(t) ==
    /\ w_pc[t] = "pass2"
    /\ run_src' = [run_src EXCEPT ![t][2] = upload_file]
    /\ w_pc' = [w_pc EXCEPT ![t] = "summary"]
    /\ UNCHANGED <<dual, upload_file, excel_file, summary_file, word_file,
                   dl_pc, got_data, got_report, pipeVars, fnVars, cmpVars, valVars>>

\* lines 63-66: statistics and the LLM's summary
Summarise(t) ==
    /\ w_pc[t] = "summary"
    /\ w_pc' = [w_pc EXCEPT ![t] = "save_excel"]
    /\ UNCHANGED <<dual, upload_file, run_src, excel_file, summary_file, word_file,
                   dl_pc, got_data, got_report, pipeVars, fnVars, cmpVars, valVars>>

\* line 70 behind a lock held until the summary is written
WriteExcel_Locked(t) ==
    /\ w_pc[t] = "save_excel"
    /\ \A u \in Threads \ {t} : w_pc[u] # "save_summary"
    /\ excel_file' = Artifact(t)
    /\ w_pc' = [w_pc EXCEPT ![t] = "save_summary"]
    /\ UNCHANGED <<dual, upload_file, run_src, summary_file, word_file,
                   dl_pc, got_data, got_report, pipeVars, fnVars, cmpVars, valVars>>

\* line 70: df_results.to_excel(TEMP_EXCEL_PATH)
WriteExcel(t) ==
    /\ w_pc[t] = "save_excel"
    /\ excel_file' = Artifact(t)
    /\ w_pc' = [w_pc EXCEPT ![t] = "save_summary"]
    /\ UNCHANGED <<dual, upload_file, run_src, summary_file, word_file,
                   dl_pc, got_data, got_report, pipeVars, fnVars, cmpVars, valVars>>

\* lines 71-73: the summary is written
WriteSummary(t) ==
    /\ w_pc[t] = "save_summary"
    /\ summary_file' = Artifact(t)
    /\ w_pc' = [w_pc EXCEPT ![t] = "done"]
    /\ UNCHANGED <<dual, upload_file, run_src, excel_file, word_file,
                   dl_pc, got_data, got_report, pipeVars, fnVars, cmpVars, valVars>>

\* lines 74-75: either write raised; what was not written yet stays unwritten
SaveFails(t) ==
    /\ w_pc[t] \in {"save_excel", "save_summary"}
    /\ w_pc' = [w_pc EXCEPT ![t] = "done_unsaved"]
    /\ UNCHANGED <<dual, upload_file, run_src, excel_file, summary_file, word_file,
                   dl_pc, got_data, got_report, pipeVars, fnVars, cmpVars, valVars>>

\* lines 85-89: /download_data
DownloadData(u) ==
    /\ got_data[u] = NoAnswer
    /\ got_data' = [got_data EXCEPT ![u] =
                       IF excel_file = NoFile THEN [status |-> "404", body |-> NoFile]
                       ELSE [status |-> "200", body |-> excel_file]]
    /\ UNCHANGED <<w_pc, dual, upload_file, run_src, excel_file, summary_file, word_file,
                   dl_pc, got_report, pipeVars, fnVars, cmpVars, valVars>>

\* lines 91-97: /download_report reads the summary
ReportRead(u) ==
    /\ dl_pc[u] = "idle"
    /\ IF summary_file = NoFile
       THEN /\ got_report' = [got_report EXCEPT ![u] = [status |-> "404", body |-> NoFile]]
            /\ dl_pc' = [dl_pc EXCEPT ![u] = "done"]
       ELSE /\ got_report' = [got_report EXCEPT ![u] = [status |-> "building",
                                                        body |-> summary_file]]
            /\ dl_pc' = [dl_pc EXCEPT ![u] = "save"]
    /\ UNCHANGED <<w_pc, dual, upload_file, run_src, excel_file, summary_file, word_file,
                   got_data, pipeVars, fnVars, cmpVars, valVars>>

\* lines 99-112: the document is built and saved under the one fixed name
ReportSave(u) ==
    /\ dl_pc[u] = "save"
    /\ word_file' = got_report[u].body
    /\ dl_pc' = [dl_pc EXCEPT ![u] = "send"]
    /\ UNCHANGED <<w_pc, dual, upload_file, run_src, excel_file, summary_file,
                   got_data, got_report, pipeVars, fnVars, cmpVars, valVars>>

\* line 113: send_file(word_path)
ReportSend(u) ==
    /\ dl_pc[u] = "send"
    /\ got_report' = [got_report EXCEPT ![u] = [status |-> "200", body |-> word_file]]
    /\ dl_pc' = [dl_pc EXCEPT ![u] = "done"]
    /\ UNCHANGED <<w_pc, dual, upload_file, run_src, excel_file, summary_file, word_file,
                   got_data, pipeVars, fnVars, cmpVars, valVars>>

InitWeb == PipeIdle /\ CmpIdle /\ WebInit /\ ValIdle /\ FnIdle

NextWeb ==
    \E t \in Threads :
        \/ Reject(t)
        \/ Upload(t)
        \/ Pass1(t)
        \/ Pass2(t)
        \/ Summarise(t)
        \/ WriteExcel(t)
        \/ WriteSummary(t)
        \/ SaveFails(t)
        \/ DownloadData(t)
        \/ ReportRead(t)
        \/ ReportSave(t)
        \/ ReportSend(t)

SpecWeb == InitWeb /\ [][NextWeb]_vars

(***************************************************************************)
(* Properties of the shared files                                          *)
(***************************************************************************)
\* C8: nothing serialises the two writes of one request against another
\* request's: a request that has reached either write can always take it,
\* wherever the other request stands; and a download answers with whatever the
\* file holds at that moment, whichever request wrote it.
C8_WritesUnlocked ==
    /\ \A t \in Threads :
          /\ w_pc[t] = "save_excel" => ENABLED WriteExcel(t)
          /\ w_pc[t] = "save_summary" => ENABLED WriteSummary(t)
    /\ \A u \in Threads :
          /\ got_data[u].status = "200" => got_data[u].body.req \in Threads
          /\ got_report[u].status = "200" => got_report[u].body.req \in Threads

\* both requests saved both files, yet the spreadsheet on disk is one request's
\* and the summary the other's; and a user whose request had finished downloaded
\* the other user's spreadsheet
C8_Witness ==
    /\ \A t \in Threads : w_pc[t] = "done"
    /\ excel_file.req # summary_file.req
    /\ excel_file.req \in Threads /\ summary_file.req \in Threads
    /\ \E u \in Threads : got_data[u].status = "200" /\ got_data[u].body.req # u

(***************************************************************************)
(* run_gold_standard_validation and _get_predictions (validator.py)        *)
(***************************************************************************)
\* A gold record with its labels, and an element of the JSON list that is no
\* record at all (item.get raises on it).
GoldSample(a, se) == [wellformed |-> TRUE, text |-> "review", label_aspect |-> a,
                      label_sentiment |-> se]
NotARecord == [wellformed |-> FALSE, text |-> "", label_aspect |-> "", label_sentiment |-> ""]

GoldSamples == { GoldSample("other", "neutral"), GoldSample("service", "negative"),
                 NotARecord }

ValInsightLists == { <<>>, <<InsightB>>, <<InsightA, InsightB>> }

\* what a parsed answer to a chunk may carry: ids of the gold set in any order,
\* left out or repeated, and the id `foreign`
ValResponses(ids, foreign) ==
    SeqsUpTo([id : ids \cup {foreign}, insights : ValInsightLists], MaxResp)

\* lines 173-174 keyed by the position in the answer instead of res.id
RECURSIVE UpdatePredictions_ByPosition(_, _, _)
UpdatePredictions_ByPosition(map, results, start) ==
    IF results = <<>> THEN map
    ELSE UpdatePredictions_ByPosition((start :> Head(results).insights) @@ map,
                                      Tail(results), start + 1)

\* lines 173-174: for res in batch_results: predictions_map[res.id] = res.insights
RECURSIVE UpdatePredictions(_, _, _)
UpdatePredictions(map, results, start) ==
    IF results = <<>> THEN map
    ELSE UpdatePredictions((Head(results).id :> Head(results).insights) @@ map,
                           Tail(results), start)

\* lines 75-76: the pair the consistency check compares
ConsistencyPair(p) ==
    IF p # <<>> THEN <<p[1].aspect, p[1].sentiment>> ELSE <<"none", "none">>

\* lines 94-99: the prediction the accuracy comparison uses
Prediction(p) ==
    IF p # <<>> THEN <<p[1].aspect, p[1].sentiment>> ELSE <<"other", "neutral">>

\* round(x * 100, 2) of x = a / b, in hundredths of a percent
Round2(a, b) ==
    LET q == (a * 10000) \div b
        r == (a * 10000) % b
    IN  IF 2 * r > b THEN q + 1
        ELSE IF 2 * r = b THEN q + (q % 2)
        ELSE q

\* lines 68-81
ConsistencyScore(p1, p2, total_checks) ==
    LET consistent_count ==
            Cardinality({idx \in 0..(total_checks - 1) :
                            ConsistencyPair(MapGet(p1, idx)) = ConsistencyPair(MapGet(p2, idx))})
    IN  IF total_checks > 0 THEN Round2(consistent_count, total_checks) ELSE 0

\* lines 89-121: one details entry per gold record
Details(data, p1) ==
    [k \in 1..Len(data) |->
        LET pred == Prediction(MapGet(p1, k - 1))
            true == <<data[k].label_aspect, data[k].label_sentiment>>
        IN  [true |-> true, pred |-> pred, status |-> IF true = pred THEN "Match" ELSE "Mismatch"]]

\* line 125: accuracy_score over the aspect labels, in hundredths of a percent;
\* not a number for an empty label list
Accuracy(data, p1) ==
    IF data = <<>> THEN <<>>
    ELSE <<Round2(Cardinality({k \in 1..Len(data) :
                                  data[k].label_aspect = Prediction(MapGet(p1, k - 1))[1]}),
                  Len(data))>>

ValInit ==
    /\ gold_ok \in BOOLEAN
    /\ gold \in SeqsUpTo(GoldSamples, MaxGold)
    /\ ~gold_ok => gold = <<>>
    /\ v_dual \in BOOLEAN
    /\ v_pc = "load"
    /\ v_i = 0
    /\ v_last = <<>>
    /\ pred1 = <<>>
    /\ pred2 = <<>>
    /\ v_result = NoResult

\* lines 37-57: the file is loaded and the batch input prepared; item.get on
\* something that is no record raises, and nothing here catches it
Load ==
    /\ v_pc = "load"
    /\ IF ~gold_ok
       THEN /\ v_result' = [error |-> "Failed to load JSON"]
            /\ v_pc' = "done"
       ELSE /\ v_result' = v_result
            /\ v_pc' = IF \E k \in 1..Len(gold) : ~gold[k].wellformed
                       THEN "raised" ELSE "pass1"
    /\ UNCHANGED <<gold_ok, gold, v_dual, v_i, v_last, pred1, pred2, pipeVars, fnVars, cmpVars,
                   webVars>>

\* lines 170-174: one chunk of _get_predictions, in pass 1 or pass 2
ValCall ==
    /\ v_pc \in {"pass1", "pass2"}
    /\ v_i < Len(gold)
    /\ \E outcome \in Outcomes :
         \E reviews \in ValResponses(0..(Len(gold) - 1), Len(gold)) :
            /\ outcome # "parsed" => reviews = <<>>
            /\ LET r == analyze_review_batch(outcome, reviews)
               IN  IF r.raised
                   THEN /\ v_pc' = "raised"
                        /\ UNCHANGED <<v_last, pred1, pred2>>
                   ELSE /\ v_pc' = v_pc
                        /\ v_last' = r.value
                        /\ IF v_pc = "pass1"
                           THEN /\ pred1' = UpdatePredictions(pred1, r.value, v_i)
                                /\ pred2' = pred2
                           ELSE /\ pred2' = UpdatePredictions(pred2, r.value, v_i)
                                /\ pred1' = pred1
    /\ v_i' = v_i + BATCH_SIZE
    /\ UNCHANGED <<gold_ok, gold, v_dual, v_result, pipeVars, fnVars, cmpVars, webVars>>

\* line 175, then line 64 or line 84
EndPass ==
    /\ v_pc \in {"pass1", "pass2"}
    /\ v_i >= Len(gold)
    /\ v_pc' = IF v_pc = "pass1" /\ v_dual THEN "pass2" ELSE "metrics"
    /\ v_i' = 0
    /\ v_last' = <<>>
    /\ UNCHANGED <<gold_ok, gold, v_dual, pred1, pred2, v_result, pipeVars, fnVars, cmpVars,
                   webVars>>

\* lines 63-81: None unless dual_mode
Consistency ==
    IF v_dual THEN <<ConsistencyScore(pred1, pred2, Len(gold))>> ELSE <<>>

\* lines 124-157: the metrics are computed
FinishMetrics ==
    /\ v_pc = "metrics"
    /\ v_result' = [accuracy |-> Accuracy(gold, pred1),
                    details |-> Details(gold, pred1),
                    consistency |-> Consistency]
    /\ v_pc' = "done"
    /\ UNCHANGED <<gold_ok, gold, v_dual, v_i, v_last, pred1, pred2, pipeVars, fnVars, cmpVars,
                   webVars>>

\* the metrics computation raising with no `except` around it
FinishError_NoCatch ==
    /\ v_pc = "metrics"
    /\ v_pc' = "raised"
    /\ UNCHANGED <<gold_ok, gold, v_dual, v_i, v_last, pred1, pred2, v_result, pipeVars, fnVars,
                   cmpVars, webVars>>

\* lines 159-162: the metrics computation raised
FinishError ==
    /\ v_pc = "metrics"
    /\ v_result' = [error |-> "metrics"]
    /\ v_pc' = "done"
    /\ UNCHANGED <<gold_ok, gold, v_dual, v_i, v_last, pred1, pred2, pipeVars, fnVars, cmpVars,
                   webVars>>

InitValidate == PipeIdle /\ CmpIdle /\ WebIdle /\ ValInit /\ FnIdle

NextValidate == Load \/ ValCall \/ EndPass \/ FinishMetrics \/ FinishError

SpecValidate == InitValidate /\ [][NextValidate]_vars

(***************************************************************************)
(* Properties of the validation harness                                    *)
(***************************************************************************)
GoldIds == 0..(Len(gold) - 1)

\* the insights the pass's predictions hold for a gold id; none when it has none
Held(map, id) == IF id \in DOMAIN map THEN map[id] ELSE <<>>

FirstOrDefault(p) ==
    IF Len(p) = 0 THEN <<"other", "neutral">> ELSE <<p[1].aspect, p[1].sentiment>>

FirstOrNone(p) ==
    IF Len(p) = 0 THEN <<"none", "none">> ELSE <<p[1].aspect, p[1].sentiment>>

\* the answer just stored into the running pass's predictions
JustStored == v_pc \in {"pass1", "pass2"} /\ v_i > 0
Running == IF v_pc = "pass1" THEN pred1 ELSE pred2

LastWith(id) ==
    CHOOSE k \in 1..Len(v_last) :
        v_last[k].id = id /\ \A l \in (k + 1)..Len(v_last) : v_last[l].id # id

\* every id of the answer holds what the answer's last entry for it carries,
\* wherever in the answer that entry stands
StoredById ==
    JustStored =>
        \A k \in 1..Len(v_last) :
            /\ v_last[k].id \in DOMAIN Running
            /\ Running[v_last[k].id] = v_last[LastWith(v_last[k].id)].insights

Returned_Metrics == v_pc = "done" /\ "consistency" \in DOMAIN v_result

\* percentage, in hundredths, of the gold ids on which the two passes agree
AgreeingPercent(pair(_)) ==
    IF Len(gold) = 0 THEN 0
    ELSE LET n == Cardinality({id \in GoldIds :
                                  pair(Held(pred1, id)) = pair(Held(pred2, id))})
             q == (n * 10000) \div Len(gold)
             r == (n * 10000) % Len(gold)
         IN  IF 2 * r > Len(gold) \/ (2 * r = Len(gold) /\ q % 2 = 1) THEN q + 1 ELSE q

\* C9 as stated: in dual mode the consistency is the percentage of gold samples,
\* matched by id, whose prediction -- the first insight's aspect and sentiment,
\* ("other", "neutral") when there is no insight -- is the same in both passes;
\* 0 for an empty gold set; None when dual mode is off.
C9_AsStated ==
    /\ StoredById
    /\ Returned_Metrics =>
          IF v_dual THEN v_result.consistency = <<AgreeingPercent(FirstOrDefault)>>
          ELSE v_result.consistency = <<>>

\* C9 (amended): as stated, except that a sample without insight compares as the
\* pair ("none", "none"), equal only to another sample without insight; the
\* percentage is rounded to two decimals.
C9_MissingIsNone ==
    /\ StoredById
    /\ Returned_Metrics =>
          /\ v_dual => v_result.consistency = <<AgreeingPercent(FirstOrNone)>>
          /\ (v_dual /\ gold = <<>>) => v_result.consistency = <<0>>
          /\ ~v_dual => v_result.consistency = <<>>

\* dual mode over two samples: both passes predict the same for id 0 and
\* differ on id 1, where only pass 2 has an insight; the consistency is 50.00
C9_Witness ==
    /\ Returned_Metrics
    /\ v_dual
    /\ Len(gold) = 2
    /\ Held(pred1, 0) # <<>> /\ Held(pred1, 0) = Held(pred2, 0)
    /\ Held(pred1, 1) = <<>> /\ Held(pred2, 1) # <<>>
    /\ v_result.consistency = <<5000>>

\* C10: an empty gold set and a failing metrics computation never make
\* run_gold_standard_validation raise: it returns the metrics or a result whose
\* only field is `error`; so does a gold file that cannot be loaded.  The one
\* raise left is item.get on a gold element that is no record.
C10_NeverRaises ==
    /\ v_pc = "raised" => (gold_ok /\ \E k \in 1..Len(gold) : ~gold[k].wellformed)
    /\ v_pc = "done" =>
          \/ DOMAIN v_result = {"error"}
          \/ DOMAIN v_result = {"accuracy", "details", "consistency"}
    /\ (v_pc = "done" /\ ~gold_ok) => v_result = [error |-> "Failed to load JSON"]
    /\ v_pc # "done" => v_result = NoResult

\* an empty gold set in dual mode whose metrics computation failed: the result
\* is the error record
C10_Witness ==
    /\ v_pc = "done"
    /\ gold_ok /\ gold = <<>> /\ v_dual
    /\ v_result = [error |-> "metrics"]

(***************************************************************************)
(* Text column detection: process_excel_file, analyzer.py lines 12-34      *)
(***************************************************************************)
MaxTable == 2       \* widest and longest table drawn

\* a header cell holding text, and one holding a number (read_excel keeps the
\* number as the column label)
StrName(s) == [kind |-> "str", chars |-> s]
IntName == [kind |-> "int", chars |-> <<"7">>]

Names ==
    { StrName(<<"T", "e", "x", "t">>),
      StrName(<<"R", "e", "v", "i", "e", "w">>),
      StrName(<<"R", "e", "v", "i", "e", "w", "I", "D">>),
      StrName(<<"R", "e", "v", "i", "e", "w", " ", "d", "a", "t", "e">>),
      StrName(<<"F", "e", "e", "d", "b", "a", "c", "k">>),
      StrName(<<"N", "a", "m", "e">>),
      IntName }

ColCells == { NaNCell, StrCell(<<"G", "r", "e", "a", "t">>) }

\* the sheets read: named columns of one length; read_excel makes the labels distinct
Tables ==
    UNION { { t \in [1..n -> [name : Names, cells : [1..m -> ColCells]]] :
                \A a, b \in 1..n : a # b => t[a].name # t[b].name } :
            n \in 0..MaxTable, m \in 0..MaxTable }

\* line 14
priority_cols ==
    { <<"t", "e", "x", "t">>,
      <<"c", "o", "n", "t", "e", "n", "t">>,
      <<"b", "o", "d", "y">>,
      <<"c", "o", "m", "m", "e", "n", "t">>,
      <<"r", "e", "v", "i", "e", "w", "_", "t", "e", "x", "t">>,
      <<"r", "e", "v", "i", "e", "w", " ", "t", "e", "x", "t">> }

\* `sub in s`
Contains(s, sub) ==
    \E k \in 0..(Len(s) - Len(sub)) :
       s[k + 1] = sub[1] /\ SubSeq(s, k + 1, k + Len(sub)) = sub

\* line 16
IsPriority(c_low) == c_low \in priority_cols

\* line 24
IsKeyword(c_low) ==
    /\ Contains(c_low, <<"r", "e", "v", "i", "e", "w">>)
         \/ Contains(c_low, <<"f", "e", "e", "d", "b", "a", "c", "k">>)
    /\ ~Contains(c_low, <<"i", "d">>)
    /\ ~Contains(c_low, <<"d", "a", "t", "e">>)

\* what text_col may hold: a column (by position), or the NaN idxmax answers
Col(k) == [kind |-> "col", col |-> k]
NaNLabel == [kind |-> "nan", col |-> 0]

\* the test of the first loop (line 16) or of the second (line 24)
Passes(rule, c_low) ==
    IF rule = "priority" THEN IsPriority(c_low) ELSE IsKeyword(c_low)

\* lines 15-18 and 22-27: `for col in df.columns` breaking at the first column
\* whose lower-cased name passes the loop's test; col.lower() raises
\* AttributeError on a label that is no string
FirstColumn(table, rule) ==
    LET stops == { k \in 1..Len(table) :
                     \/ table[k].name.kind # "str"
                     \/ Passes(rule, Lower(table[k].name.chars)) }
    IN  IF stops = {} THEN Returned(NoCol)
        ELSE LET k == CHOOSE a \in stops : \A b \in stops : a <= b
             IN  IF table[k].name.kind # "str" THEN Raised ELSE Returned(Col(k))

RECURSIVE SumLen(_)
\* df.astype(str).apply(lambda x: x.str.len()) summed over one column
SumLen(cells) ==
    IF cells = <<>> THEN 0
    ELSE Len(Str(Head(cells))) + SumLen(Tail(cells))

\* .mean().idxmax(), line 32.  Every column has the same number of cells, so the
\* means compare as the sums do; idxmax answers the first label of the maximum.
\* With no column the Series is empty and idxmax raises ValueError.  With no row
\* every mean is NaN (or mean() itself raises): idxmax then raises or answers
\* NaN, depending on the pandas release installed (none is pinned).
IdxMax(table) ==
    IF Len(table) = 0 THEN { Raised }
    ELSE IF Len(table[1].cells) = 0 THEN { Raised, Returned(NaNLabel) }
    ELSE LET best == { k \in 1..Len(table) :
                         \A j \in 1..Len(table) :
                            SumLen(table[j].cells) <= SumLen(table[k].cells) }
         IN  { Returned(Col(CHOOSE a \in best : \A b \in best : a <= b)) }

\* lines 31-34: try idxmax, except: df.columns[0], which raises IndexError when
\* there is no column
LongestOrFirst(table) ==
    { IF ~r.raised THEN r
      ELSE IF Len(table) = 0 THEN Raised
      ELSE Returned(Col(1)) : r \in IdxMax(table) }

ColInit ==
    /\ columns \in Tables
    /\ col_pc = "priority"
    /\ text_col = NoCol

\* lines 15-18
MatchPriority ==
    /\ col_pc = "priority"
    /\ LET r == FirstColumn(columns, "priority")
       IN  IF r.raised
           THEN col_pc' = "raised" /\ text_col' = text_col
           ELSE col_pc' = "keyword" /\ text_col' = r.value
    /\ UNCHANGED <<columns, tagVars, reqVars, pipeVars, cmpVars, webVars, valVars>>

\* lines 21-27
MatchKeyword ==
    /\ col_pc = "keyword"
    /\ text_col = NoCol
    /\ LET r == FirstColumn(columns, "keyword")
       IN  IF r.raised
           THEN col_pc' = "raised" /\ text_col' = text_col
           ELSE col_pc' = "longest" /\ text_col' = r.value
    /\ UNCHANGED <<columns, tagVars, reqVars, pipeVars, cmpVars, webVars, valVars>>

\* lines 30-34
LongestColumn ==
    /\ col_pc = "longest"
    /\ text_col = NoCol
    /\ \E r \in LongestOrFirst(columns) :
          IF r.raised
          THEN col_pc' = "raised" /\ text_col' = text_col
          ELSE col_pc' = "done" /\ text_col' = r.value
    /\ UNCHANGED <<columns, tagVars, reqVars, pipeVars, cmpVars, webVars, valVars>>

\* lines 21 and 30: `if not text_col` is false once a column is chosen
SkipRule ==
    /\ col_pc \in {"keyword", "longest"}
    /\ text_col # NoCol
    /\ col_pc' = IF col_pc = "keyword" THEN "longest" ELSE "done"
    /\ UNCHANGED <<columns, text_col, tagVars, reqVars, pipeVars, cmpVars, webVars, valVars>>

InitColumns == PipeIdle /\ CmpIdle /\ WebIdle /\ ValIdle /\ ColInit /\ TagIdle /\ ReqIdle

NextColumns == MatchPriority \/ MatchKeyword \/ LongestColumn \/ SkipRule

SpecColumns == InitColumns /\ [][NextColumns]_vars

\* ---- C11 ----
\* the columns rule 1 and rule 2 of the claim name
PriorityNamed(table) ==
    { k \in 1..Len(table) :
        table[k].name.kind = "str" /\ Lower(table[k].name.chars) \in priority_cols }

KeywordNamed(table) ==
    { k \in 1..Len(table) :
        /\ table[k].name.kind = "str"
        /\ LET n == Lower(table[k].name.chars)
           IN  /\ Contains(n, <<"r", "e", "v", "i", "e", "w">>)
                    \/ Contains(n, <<"f", "e", "e", "d", "b", "a", "c", "k">>)
               /\ ~Contains(n, <<"i", "d">>)
               /\ ~Contains(n, <<"d", "a", "t", "e">>) }

\* ties are broken by column order
FirstOf(S) == CHOOSE a \in S : \A b \in S : a <= b

\* the columns of the greatest mean cell string length (sum over count, the
\* count being the same for every column and not zero)
Longest(table) ==
    { k \in 1..Len(table) :
        \A j \in 1..Len(table) :
           SumLen(table[j].cells) * Len(table[k].cells)
              <= SumLen(table[k].cells) * Len(table[j].cells) }

\* the column the four rules of the claim give, for a table that has a column
Expected(table) ==
    IF PriorityNamed(table) # {} THEN FirstOf(PriorityNamed(table))
    ELSE IF KeywordNamed(table) # {} THEN FirstOf(KeywordNamed(table))
    ELSE IF Len(table[1].cells) > 0 THEN FirstOf(Longest(table))
    ELSE 1

Detected == col_pc \in {"done", "raised"}

\* C11 as stated: for every table with at least one column the detection ends
\* with the column that the first matching rule gives (priority name, else
\* review/feedback name without id/date, else greatest mean string length, else
\* the first column), ties going to the earlier column, and a table without
\* rows yields its first column.
C11_AsStated ==
    (Detected /\ Len(columns) > 0)
        => (col_pc = "done" /\ text_col = Col(Expected(columns)))

\* C11, the part the code keeps: when the sheet has a row and every label is
\* text, the detection ends with the claim's column.
C11_FilledTextNamedTables ==
    (Detected /\ Len(columns) > 0 /\ Len(columns[1].cells) > 0
        /\ \A k \in 1..Len(columns) : columns[k].name.kind = "str")
        => (col_pc = "done" /\ text_col = Col(Expected(columns)))

\* a sheet with a column and no row, none of its names matching: idxmax has
\* answered NaN, which is no column of the sheet
C11_EmptyTableNaN ==
    /\ col_pc = "done"
    /\ Len(columns) > 0
    /\ Len(columns[1].cells) = 0
    /\ text_col = NaNLabel

(***************************************************************************)
(* detect_complexity_tags: validator.py lines 8-30                         *)
(***************************************************************************)
MaxPieces == 3      \* most pieces a drawn text is put together from
LongLen == 150      \* line 25: len(text) > 150

\* the characters \b takes for word characters: letters, digits, underscore
WordChars ==
    { "a", "b", "c", "d", "e", "f", "g", "h", "i", "j", "k", "l", "m",
      "n", "o", "p", "q", "r", "s", "t", "u", "v", "w", "x", "y", "z",
      "A", "B", "C", "D", "E", "F", "G", "H", "I", "J", "K", "L", "M",
      "N", "O", "P", "Q", "R", "S", "T", "U", "V", "W", "X", "Y", "Z",
      "0", "1", "2", "3", "4", "5", "6", "7", "8", "9", "_" }

Pieces ==
    { <<"n", "o", "t">>, <<"N", "O", "T">>, <<"h", "i", "n", "g">>, <<"n", "'", "t">>,
      <<"d", "o">>, <<"h", "o", "w", "e", "v", "e", "r">>, <<"b", "u", "t">>, <<" ">> }

RECURSIVE Concat(_)
Concat(ps) == IF ps = <<>> THEN <<>> ELSE Head(ps) \o Concat(Tail(ps))

Pad(c, n) == [k \in 1..n |-> c]

\* the texts drawn: up to MaxPieces pieces, followed by at most one "x" or " ",
\* or by as many as bring the length to LongLen or to LongLen + 1
Texts ==
    { Concat(ps) \o Pad(c, n) :
        ps \in SeqsUpTo(Pieces, MaxPieces), c \in {"x", " "}, n \in {0, 1} }
    \cup
    { Concat(ps) \o Pad(c, LongLen + n - Len(Concat(ps))) :
        ps \in SeqsUpTo(Pieces, MaxPieces), c \in {"x", " "}, n \in {0, 1} }

\* \b between s[k] and s[k+1]: a word character on exactly one side, the ends of
\* the string counting as no word character
IsWordAt(s, k) == k \in 1..Len(s) /\ s[k] \in WordChars
Boundary(s, k) == IsWordAt(s, k) # IsWordAt(s, k + 1)

\* the search with the two \b left out
re_search_NoBoundary(alts, s) ==
    \E w \in alts : \E k \in 0..(Len(s) - Len(w)) :
       /\ s[k + 1] = w[1]
       /\ SubSeq(s, k + 1, k + Len(w)) = w

\* re.search(r"\b(w1|w2|...)\b", s)
re_search(alts, s) ==
    \E w \in alts : \E k \in 0..(Len(s) - Len(w)) :
       /\ s[k + 1] = w[1]
       /\ SubSeq(s, k + 1, k + Len(w)) = w
       /\ Boundary(s, k)
       /\ Boundary(s, k + Len(w))

\* line 16
NegationWords ==
    { <<"n", "o", "t">>, <<"n", "o">>, <<"n", "e", "v", "e", "r">>, <<"n", "'", "t">>,
      <<"c", "a", "n", "n", "o", "t">> }
\* line 20
ContrastWords ==
    { <<"b", "u", "t">>, <<"h", "o", "w", "e", "v", "e", "r">>,
      <<"a", "l", "t", "h", "o", "u", "g", "h">>, <<"t", "h", "o", "u", "g", "h">>,
      <<"w", "h", "i", "l", "e">> }

\* lines 12-30
detect_complexity_tags(t) ==
    LET text_lower == Lower(t)
        t1 == IF re_search(NegationWords, text_lower) THEN <<"Negation">> ELSE <<>>
        t2 == IF re_search(ContrastWords, text_lower)
              THEN Append(t1, "Mixed/Contrast") ELSE t1
        t3 == IF Len(t) > LongLen THEN Append(t2, "Long Text") ELSE t2
    IN  IF t3 = <<>> THEN <<"Simple">> ELSE t3

TagInit ==
    /\ tag_text \in Texts
    /\ tag_pc = "start"
    /\ tags = <<>>

Detect ==
    /\ tag_pc = "start"
    /\ tags' = detect_complexity_tags(tag_text)
    /\ tag_pc' = "done"
    /\ UNCHANGED <<tag_text, colVars, reqVars, pipeVars, cmpVars, webVars, valVars>>

InitTags == PipeIdle /\ CmpIdle /\ WebIdle /\ ValIdle /\ ColIdle /\ TagInit /\ ReqIdle

NextTags == Detect

SpecTags == InitTags /\ [][NextTags]_vars

\* ---- C12 ----
Tagged == tag_pc = "done"
Carries(tag) == \E k \in 1..Len(tags) : tags[k] = tag

\* w stands in s as a whole word, in any letter case: s = pre \o w' \o post,
\* w' being w up to case, with no word character touching w' on either side
\* where w' begins or ends with one
HasWord(s, w) ==
    \E a \in 0..(Len(s) - Len(w)) :
       LET b == a + Len(w)
       IN  /\ LowerChar(s[a + 1]) = w[1]
           /\ Lower(SubSeq(s, a + 1, b)) = w
           /\ (a > 0 /\ s[a] \in WordChars) # (s[a + 1] \in WordChars)
           /\ (b < Len(s) /\ s[b + 1] \in WordChars) # (s[b] \in WordChars)

NoTagWord(s) ==
    \A w \in NegationWords \cup ContrastWords : ~HasWord(s, w)

\* C12 as stated, "containing" read as a substring: the list is never empty; a
\* text containing "not" carries "Negation"; one containing "however" carries
\* "Mixed/Contrast"; one of 151 or more characters carries "Long Text"; a text
\* with no negation word, no contrast conjunction and at most 150 characters
\* yields exactly <<"Simple">>; "Simple" never stands with another tag.
C12_AsStated ==
    Tagged =>
        /\ tags # <<>>
        /\ Contains(tag_text, <<"n", "o", "t">>) => Carries("Negation")
        /\ Contains(tag_text, <<"h", "o", "w", "e", "v", "e", "r">>) => Carries("Mixed/Contrast")
        /\ Len(tag_text) >= LongLen + 1 => Carries("Long Text")
        /\ (NoTagWord(tag_text) /\ Len(tag_text) <= LongLen) => tags = <<"Simple">>
        /\ Carries("Simple") => tags = <<"Simple">>

\* C12 amended: the same, with "not" and "however" standing as whole words (in
\* any letter case) instead of as substrings.
C12_WholeWords ==
    Tagged =>
        /\ tags # <<>>
        /\ HasWord(tag_text, <<"n", "o", "t">>) => Carries("Negation")
        /\ HasWord(tag_text, <<"h", "o", "w", "e", "v", "e", "r">>) => Carries("Mixed/Contrast")
        /\ Len(tag_text) >= LongLen + 1 => Carries("Long Text")
        /\ (NoTagWord(tag_text) /\ Len(tag_text) <= LongLen) => tags = <<"Simple">>
        /\ Carries("Simple") => tags = <<"Simple">>

\* a text of 151 characters holding "not" as a word and "however" only inside a
\* longer word has been tagged
C12_Witness ==
    /\ Tagged
    /\ Len(tag_text) = LongLen + 1
    /\ HasWord(tag_text, <<"n", "o", "t">>)
    /\ Contains(tag_text, <<"h", "o", "w", "e", "v", "e", "r">>)
    /\ ~HasWord(tag_text, <<"h", "o", "w", "e", "v", "e", "r">>)
    /\ tags = <<"Negation", "Long Text">>

\* ---- C13 ----
\* the ids call c carried, in the order sent
CallIds(c) == [k \in 1..Len(calls[c].items) |-> calls[c].items[k].id]

\* the row passes the filter: its text has at least 5 characters (a text that
\* lower-cases to "nan" has 3, so the length decides alone)
Unfiltered(r) == Len(RowText(r)) >= 5

\* the unfiltered rows among rows lo..hi, in sheet order
RECURSIVE UnfilteredIn(_, _)
UnfilteredIn(lo, hi) ==
    IF lo > hi THEN <<>>
    ELSE IF Unfiltered(lo) THEN <<lo>> \o UnfilteredIn(lo + 1, hi)
         ELSE UnfilteredIn(lo + 1, hi)

\* the rows call c's chunk spans: from where the loop stood, at most batch_size
ChunkEnd(c) == Min(calls[c].start + batch_size, total_rows) - 1

\* C13: in one run with batch size B every call carries 1..B items, their ids
\* ascending (so pairwise distinct) and being exactly the unfiltered rows of the
\* at most B consecutive rows from where the loop stood, each with its row's
\* text; the spans of successive calls do not overlap, so no row is sent twice;
\* once the run has returned every unfiltered row lies in the span of a call, so
\* none is omitted; and there are at most ceil(rows / B) calls.
C13_EveryRowSentOnce ==
    /\ \A c \in 1..Len(calls) :
          LET ids == CallIds(c)
          IN  /\ Len(ids) >= 1 /\ Len(ids) <= batch_size
              /\ \A k \in 1..(Len(ids) - 1) : ids[k] < ids[k + 1]
              /\ calls[c].start \in RowIds
              /\ ids = UnfilteredIn(calls[c].start, ChunkEnd(c))
              /\ \A k \in 1..Len(ids) : calls[c].items[k].text = RowText(ids[k])
    /\ \A c \in 1..(Len(calls) - 1) : ChunkEnd(c) < calls[c + 1].start
    /\ pc = "done" =>
          \A r \in RowIds :
             Unfiltered(r) =>
                \E c \in 1..Len(calls) : calls[c].start <= r /\ r <= ChunkEnd(c)
    /\ Len(calls) <= (total_rows + batch_size - 1) \div batch_size

\* three rows in chunks of two have been processed: the first chunk went out
\* with two items, the second held a filtered row only and triggered no call
C13_Witness ==
    /\ pc = "done"
    /\ batch_size = 2
    /\ Len(df) = 3
    /\ ~Unfiltered(2)
    /\ Len(calls) = 1
    /\ CallIds(1) = <<0, 1>>

(***************************************************************************)
(* The LLM batch calls of one request, in time: analyze() (app.py 48-60)   *)
(* running process_excel_file once or twice, or                            *)
(* run_gold_standard_validation (validator.py 59-66) running               *)
(* _get_predictions once or twice.  A call is issued in one step and       *)
(* returns in a later one; the thread does nothing in between.             *)
(***************************************************************************)
MaxReqRows == 9     \* most rows (gold samples) of the request's input

\* /analyze filters its rows (analyzer.py 55); /validate sends every gold
\* sample (validator.py 45-57)
ReqInputs(kind) ==
    IF kind = "analyze" THEN SeqsUpTo(BOOLEAN, MaxReqRows)
    ELSE { [k \in 1..n |-> TRUE] : n \in 0..MaxReqRows }

\* the rows i..i+BATCH_SIZE-1 hold something to send: batch_input is not empty
\* (analyzer.py 62); a chunk of gold samples always does
ChunkSends(rows, lo) ==
    \E k \in (lo + 1)..Min(lo + BATCH_SIZE, Len(rows)) : rows[k]

Event(ev, pass, start) == [ev |-> ev, pass |-> pass, start |-> start]

ReqInit ==
    /\ q_kind \in {"analyze", "validate"}
    /\ q_dual \in BOOLEAN
    /\ q_rows \in ReqInputs(q_kind)
    /\ q_pass = 1
    /\ q_i = 0
    /\ q_pc = "loop"
    /\ q_log = <<>>

\* analyzer.py 62-63: nothing to send in this chunk, on to the next
ReqSkip ==
    /\ q_pc = "loop"
    /\ q_i < Len(q_rows)
    /\ ~ChunkSends(q_rows, q_i)
    /\ q_i' = q_i + BATCH_SIZE
    /\ UNCHANGED <<q_kind, q_dual, q_rows, q_pass, q_pc, q_log>>
    /\ UNCHANGED <<colVars, tagVars, pipeVars, cmpVars, webVars, valVars>>

\* the call leaving without the thread waiting for its answer
ReqIssue_NoWait ==
    /\ q_pc = "loop"
    /\ q_i < Len(q_rows)
    /\ ChunkSends(q_rows, q_i)
    /\ q_log' = Append(q_log, Event("issue", q_pass, q_i))
    /\ q_i' = q_i + BATCH_SIZE
    /\ UNCHANGED <<q_kind, q_dual, q_rows, q_pass, q_pc>>
    /\ UNCHANGED <<colVars, tagVars, pipeVars, cmpVars, webVars, valVars>>

\* analyzer.py 68, validator.py 171: analyze_review_batch is entered; the
\* thread blocks in client.beta.chat.completions.parse (llm_engine.py 36)
ReqIssue ==
    /\ q_pc = "loop"
    /\ q_i < Len(q_rows)
    /\ ChunkSends(q_rows, q_i)
    /\ q_log' = Append(q_log, Event("issue", q_pass, q_i))
    /\ q_pc' = "wait"
    /\ UNCHANGED <<q_kind, q_dual, q_rows, q_pass, q_i>>
    /\ UNCHANGED <<colVars, tagVars, pipeVars, cmpVars, webVars, valVars>>

\* analyze_review_batch returns (a list, also on refusal or error); the caller
\* uses it and the loop goes on: analyzer.py 72-96, validator.py 172-173
ReqReturn ==
    /\ q_pc = "wait"
    /\ q_log' = Append(q_log, Event("return", q_pass, q_i))
    /\ q_i' = q_i + BATCH_SIZE
    /\ q_pc' = "loop"
    /\ UNCHANGED <<q_kind, q_dual, q_rows, q_pass>>
    /\ UNCHANGED <<colVars, tagVars, pipeVars, cmpVars, webVars, valVars>>

\* the loop of a pass ends: pass 2 starts if dual_mode asks for it (app.py
\* 51-54, validator.py 64-66), otherwise the calls of the request are over
ReqEndPass ==
    /\ q_pc = "loop"
    /\ q_i >= Len(q_rows)
    /\ IF q_dual /\ q_pass = 1
       THEN q_pass' = 2 /\ q_i' = 0 /\ q_pc' = q_pc
       ELSE q_pass' = q_pass /\ q_i' = q_i /\ q_pc' = "done"
    /\ UNCHANGED <<q_kind, q_dual, q_rows, q_log>>
    /\ UNCHANGED <<colVars, tagVars, pipeVars, cmpVars, webVars, valVars>>

InitRequest == PipeIdle /\ CmpIdle /\ WebIdle /\ ValIdle /\ ColIdle /\ TagIdle /\ ReqInit

NextRequest == ReqSkip \/ ReqIssue \/ ReqReturn \/ ReqEndPass

SpecRequest == InitRequest /\ [][NextRequest]_vars

\* ---- C14 ----
\* the events of kind ev among the first n of the log
CountOf(ev, pass, n) ==
    Cardinality({ k \in 1..n : q_log[k].ev = ev /\ q_log[k].pass = pass })

\* the calls issued and not yet returned after the first n events
Outstanding(n) ==
    CountOf("issue", 1, n) + CountOf("issue", 2, n)
        - CountOf("return", 1, n) - CountOf("return", 2, n)

Issues == { k \in 1..Len(q_log) : q_log[k].ev = "issue" }

\* C14: within one /analyze or /validate request at most one batch call is
\* outstanding at any time; within a pass the chunks go out in chunk order
\* (ascending start row); and when a call of pass 2 is issued every call of pass
\* 1 has been issued and has returned, none of pass 1 following it.
C14_OneCallAtATime ==
    /\ \A n \in 0..Len(q_log) : Outstanding(n) \in {0, 1}
    /\ \A a, b \in Issues :
          (a < b /\ q_log[a].pass = q_log[b].pass) => q_log[a].start < q_log[b].start
    /\ \A b \in Issues :
          q_log[b].pass = 2 =>
             /\ CountOf("issue", 1, b) = CountOf("return", 1, b)
             /\ \A k \in b..Len(q_log) : q_log[k].pass = 2
    /\ \A k \in 1..Len(q_log) : q_log[k].pass = 2 => q_dual

\* a dual-mode /analyze over three chunks, the second with nothing to send, has
\* finished: two calls in pass 1, then two in pass 2
C14_Witness ==
    /\ q_pc = "done"
    /\ q_kind = "analyze"
    /\ q_dual
    /\ Len(q_rows) = MaxReqRows
    /\ ~ChunkSends(q_rows, BATCH_SIZE)
    /\ Len(q_log) = 8
    /\ q_log[4] = Event("return", 1, 2 * BATCH_SIZE)
    /\ q_log[5] = Event("issue", 2, 0)

\* ---- C15 ----
\* request t has finished its pass 1, its pass 2 (where it runs one)
Pass1Done(t) == w_pc[t] \notin {"idle", "rejected", "pass1"}
PassesDone(t) == Pass1Done(t) /\ w_pc[t] # "pass2"

\* C15 as stated: every analysis pass of an /analyze request reads the file that
\* same request uploaded, whatever the other request thread does meanwhile; so
\* the two runs compare_and_merge_runs gets in dual mode come from one file.
C15_AsStated ==
    \A t \in Threads :
       /\ Pass1Done(t) => run_src[t][1] = t
       /\ PassesDone(t) => run_src[t][2] = t
       /\ (PassesDone(t) /\ dual[t]) => run_src[t][1] = run_src[t][2]

\* a dual-mode request whose pass 1 read its own upload and whose pass 2 read
\* the upload the other request saved in between under the same name
C15_MixedRuns ==
    \E t \in Threads :
       /\ dual[t]
       /\ PassesDone(t)
       /\ run_src[t][1] = t
       /\ run_src[t][2] \in Threads \ {t}

====
